---------------------------- MODULE Spec2Model ----------------------------
(***************************************************************************)
(* A model of edgarhtml5yearHTML.py, the EDGAR 10-K/20-F HTML and exhibits *)
(* downloader.  File names, URLs, form types and the legacy bundle text    *)
(* are strings, and the string tests of the program (lower(), endswith(),  *)
(* "in", the regular expressions) are computed character by character.     *)
(* The remote service is the environment: every response is chosen at the  *)
(* moment the program issues the request.                                   *)
(***************************************************************************)
EXTENDS Integers, Sequences, FiniteSets, TLC

(***************************************************************************)
(* Python values                                                           *)
(***************************************************************************)
\* Python's None, kept apart from every string the program handles.
None == "<None>"
\* The outcome "an exception left the function".
Raise == "<raise>"

(***************************************************************************)
(* Strings                                                                 *)
(***************************************************************************)
UpperLetters == "ABCDEFGHIJKLMNOPQRSTUVWXYZ"
LowerLetters == "abcdefghijklmnopqrstuvwxyz"
Digits == "0123456789"

Ch(s, i) == SubSeq(s, i, i)

Chars(s) == {Ch(s, i) : i \in 1..Len(s)}

UpperChars == Chars(UpperLetters)
LowerChars == Chars(LowerLetters)
DigitChars == Chars(Digits)

LetterIndex(alphabet, c) == CHOOSE i \in 1..Len(alphabet) : Ch(alphabet, i) = c

LowerCh(c) ==
    IF c \in UpperChars THEN Ch(LowerLetters, LetterIndex(UpperLetters, c)) ELSE c

UpperCh(c) ==
    IF c \in LowerChars THEN Ch(UpperLetters, LetterIndex(LowerLetters, c)) ELSE c

RECURSIVE Lower(_)
\* s.lower(), halving s so that a long text stays within a shallow recursion
Lower(s) ==
    IF Len(s) = 0 THEN ""
    ELSE IF Len(s) = 1 THEN LowerCh(s)
    ELSE Lower(SubSeq(s, 1, Len(s) \div 2)) \o Lower(SubSeq(s, Len(s) \div 2 + 1, Len(s)))

RECURSIVE Upper(_)
\* s.upper()
Upper(s) ==
    IF Len(s) = 0 THEN ""
    ELSE IF Len(s) = 1 THEN UpperCh(s)
    ELSE Upper(SubSeq(s, 1, Len(s) \div 2)) \o Upper(SubSeq(s, Len(s) \div 2 + 1, Len(s)))

\* sub in s
Contains(s, sub) ==
    \E i \in 1..(Len(s) - Len(sub) + 1) : SubSeq(s, i, i + Len(sub) - 1) = sub

\* s.endswith(suffix)
EndsWith(s, suffix) ==
    /\ Len(s) >= Len(suffix)
    /\ SubSeq(s, Len(s) - Len(suffix) + 1, Len(s)) = suffix

\* s.endswith((e1, e2, ...))
EndsWithAny(s, suffixes) == \E e \in suffixes : EndsWith(s, e)

\* The least index >= from at which sub occurs in s, 0 when there is none.
IndexFrom(s, sub, from) ==
    LET hits == {i \in from..(Len(s) - Len(sub) + 1) : SubSeq(s, i, i + Len(sub) - 1) = sub}
    IN IF hits = {} THEN 0 ELSE CHOOSE i \in hits : \A j \in hits : i <= j

IsSpace(c) == c \in {" ", "\t", "\n", "\r"}
IsDigit(c) == c \in DigitChars
\* \w of the regular expressions
IsWordCh(c) == c \in LowerChars \cup UpperChars \cup DigitChars \cup {"_"}

Min(a, b) == IF a <= b THEN a ELSE b

(***************************************************************************)
(* Configuration (module globals of the program)                           *)
(***************************************************************************)
\* DOWNLOAD_EXHIBITS = True
DOWNLOAD_EXHIBITS == TRUE
\* EXHIBIT_EXTS
EXHIBIT_EXTS == {".htm", ".html", ".txt", ".pdf"}
HTML_EXTS == {".htm", ".html"}
\* the filing-type tokens looked for in a declared primary document name
ANNUAL_TOKENS == {"10-k", "10k", "20-f", "20f"}
\* the <TYPE> labels accepted in a legacy bundle
ANNUAL_TYPES == {"10-K", "10-K/A", "20-F", "20-F/A"}

\* The filing used where one filing is followed: its CIK without leading
\* zeros and its accession number without dashes (18 digits).
Cik == "320193"
Accession == "000032019323000106"

\* f"https://www.sec.gov/Archives/edgar/data/{cik_no_zeros}/{accession_nodashes}/{name}"
ArchiveUrl(cik_no_zeros, accession_nodashes, name) ==
    "https://www.sec.gov/Archives/edgar/data/" \o cik_no_zeros \o "/"
        \o accession_nodashes \o "/" \o name

(***************************************************************************)
(* get_json's result as its callers see it: None, or the parsed document.  *)
(* A directory listing is {"directory": {"item": [{"name": ...}, ...]}};   *)
(* an item's name is a string, or None for a JSON null.                    *)
(***************************************************************************)
JsonNone == [json |-> FALSE]
IndexJson(item) == [json |-> TRUE, directory |-> [item |-> item]]

\* _index_json_items, after its get_json call returned data
_index_json_items(data) ==
    IF ~data.json THEN <<>> ELSE data.directory.item

(***************************************************************************)
(* Tier 2: scoring of the listed HTML files                                *)
(***************************************************************************)
\* re.search(r"\bex[-_ ]?\d", n)
ExhibitPattern(n) ==
    \E i \in 1..(Len(n) - 1) :
        /\ SubSeq(n, i, i + 1) = "ex"
        /\ (i = 1 \/ ~IsWordCh(Ch(n, i - 1)))
        /\ \/ (i + 2 <= Len(n) /\ IsDigit(Ch(n, i + 2)))
           \/ (i + 3 <= Len(n) /\ Ch(n, i + 2) \in {"-", "_", " "} /\ IsDigit(Ch(n, i + 3)))

\* score with the sign of the index.html penalty reversed
scoreIndexBonus(name) ==
    LET n == Lower(name)
    IN (IF Contains(n, "10-k") \/ Contains(n, "10k") THEN 10 ELSE 0)
       + (IF Contains(n, "20-f") \/ Contains(n, "20f") THEN 9 ELSE 0)
       + (IF Contains(n, "form") THEN 2 ELSE 0)
       + (IF n = "index.html" THEN 10 ELSE 0)
       - (IF ExhibitPattern(n) \/ Contains(n, "exhibit") THEN 5 ELSE 0)
       + Min(Len(n) \div 10, 3)

\* score(name) of pick_html_from_index_json
score(name) ==
    LET n == Lower(name)
    IN (IF Contains(n, "10-k") \/ Contains(n, "10k") THEN 10 ELSE 0)
       + (IF Contains(n, "20-f") \/ Contains(n, "20f") THEN 9 ELSE 0)
       + (IF Contains(n, "form") THEN 2 ELSE 0)
       - (IF n = "index.html" THEN 10 ELSE 0)
       - (IF ExhibitPattern(n) \/ Contains(n, "exhibit") THEN 5 ELSE 0)
       + Min(Len(n) \div 10, 3)

\* min in place of max
MinByScore(htmls) ==
    LET worst == CHOOSE i \in 1..Len(htmls) :
                    /\ \A j \in 1..Len(htmls) : score(htmls[j]) >= score(htmls[i])
                    /\ \A j \in 1..(i - 1) : score(htmls[j]) > score(htmls[i])
    IN htmls[worst]

\* max(htmls, key=score): the first of the maximal elements
MaxByScore(htmls) ==
    LET best == CHOOSE i \in 1..Len(htmls) :
                    /\ \A j \in 1..Len(htmls) : score(htmls[j]) <= score(htmls[i])
                    /\ \A j \in 1..(i - 1) : score(htmls[j]) < score(htmls[i])
    IN htmls[best]

RECURSIVE HtmlNames(_)
\* [it["name"] for it in items if it.get("name","").lower().endswith((".htm",".html"))]
HtmlNames(items) ==
    IF items = <<>> THEN <<>>
    ELSE (IF EndsWithAny(Lower(Head(items).name), HTML_EXTS)
          THEN <<Head(items).name>> ELSE <<>>) \o HtmlNames(Tail(items))

\* pick_html_from_index_json, given the items its listing fetch returned:
\* a URL, None, or Raise (None.lower() on an item whose name is null).
pick_html_from_index_json(cik_no_zeros, accession_nodashes, items) ==
    IF \E i \in 1..Len(items) : items[i].name = None THEN Raise
    ELSE LET htmls == HtmlNames(items)
         IN IF htmls = <<>> THEN None
            ELSE ArchiveUrl(cik_no_zeros, accession_nodashes, MaxByScore(htmls))

(***************************************************************************)
(* Tier 3 and the bundle recovery: the <DOCUMENT> blocks of a bundle       *)
(***************************************************************************)
RECURSIVE DocBlocksFrom(_, _, _)
\* re.findall(r"<DOCUMENT>(.*?)</DOCUMENT>", txt, re.DOTALL | re.IGNORECASE)
\* from position `from` on; lt is txt in lower case.
DocBlocksFrom(t, lt, from) ==
    LET i == IndexFrom(lt, "<document>", from)
    IN IF i = 0 THEN <<>>
       ELSE LET j == IndexFrom(lt, "</document>", i + 10)
            IN IF j = 0 THEN <<>>
               ELSE <<SubSeq(t, i + 10, j - 1)>> \o DocBlocksFrom(t, lt, j + 11)

DocBlocks(t) == DocBlocksFrom(t, Lower(t), 1)

\* The first index >= q of b that holds no white space, Len(b) + 1 when none.
SkipSpaces(b, q) ==
    LET rest == {k \in q..Len(b) : ~IsSpace(Ch(b, k))}
    IN IF rest = {} THEN Len(b) + 1 ELSE CHOOSE k \in rest : \A m \in rest : k <= m

\* The first index >= q of b that holds white space or "<", Len(b) + 1 when none.
RunEnd(b, q) ==
    LET stops == {k \in q..Len(b) : IsSpace(Ch(b, k)) \/ Ch(b, k) = "<"}
    IN IF stops = {} THEN Len(b) + 1 ELSE CHOOSE k \in stops : \A m \in stops : k <= m

RECURSIVE TagValueFrom(_, _, _, _)
\* re.search(tag + r"\s*([^\s<]+)", block, re.IGNORECASE).group(1), None when
\* nothing matches; lb is block in lower case and tag is in lower case.
TagValueFrom(b, lb, tag, from) ==
    LET p == IndexFrom(lb, tag, from)
    IN IF p = 0 THEN None
       ELSE LET q == SkipSpaces(b, p + Len(tag))
            IN IF q <= Len(b) /\ Ch(b, q) # "<"
               THEN SubSeq(b, q, RunEnd(b, q) - 1)
               ELSE TagValueFrom(b, lb, tag, p + 1)

TagValue(block, tag) == TagValueFrom(block, Lower(block), tag, 1)

\* the block test without the test of the <TYPE> label
AnnualHtmlOfBlockAnyType(block) ==
    LET mtype == TagValue(block, "<type>")
        mfile == TagValue(block, "<filename>")
    IN IF mtype = None \/ mfile = None THEN None
       ELSE IF EndsWithAny(Lower(mfile), HTML_EXTS) THEN mfile ELSE None

\* The test of one block (lines 190-196 and 291-297): its <FILENAME> when
\* the block is an annual report in HTML, None otherwise.
AnnualHtmlOfBlock(block) ==
    LET mtype == TagValue(block, "<type>")
        mfile == TagValue(block, "<filename>")
    IN IF mtype = None \/ mfile = None THEN None
       ELSE IF Upper(mtype) \in ANNUAL_TYPES /\ EndsWithAny(Lower(mfile), HTML_EXTS)
            THEN mfile ELSE None

RECURSIVE FirstAnnualHtml(_)
\* for block in doc_blocks: ... return fname
FirstAnnualHtml(doc_blocks) ==
    IF doc_blocks = <<>> THEN None
    ELSE LET fname == AnnualHtmlOfBlock(Head(doc_blocks))
         IN IF fname # None THEN fname ELSE FirstAnnualHtml(Tail(doc_blocks))

\* _extract_annual_html_from_sgml
_extract_annual_html_from_sgml(sgml_text) == FirstAnnualHtml(DocBlocks(sgml_text))

\* parse_submission_txt_for_annual_html, given what get_text returned
parse_submission_txt_for_annual_html(cik_no_zeros, accession_nodashes, txt) ==
    IF txt = None \/ txt = "" THEN None
    ELSE LET fname == FirstAnnualHtml(DocBlocks(txt))
         IN IF fname = None THEN None
            ELSE ArchiveUrl(cik_no_zeros, accession_nodashes, fname)

\* tier 1 without lower(): the tests made on the name as declared
DeclaredNameUrlCaseSensitive(cik_no_zeros, accession_nodashes, primary_doc) ==
    IF primary_doc = None \/ primary_doc = "" THEN None
    ELSE IF EndsWithAny(primary_doc, HTML_EXTS)
            /\ \E k \in ANNUAL_TOKENS : Contains(primary_doc, k)
         THEN ArchiveUrl(cik_no_zeros, accession_nodashes, primary_doc)
         ELSE None

\* Tier 1 (lines 206-209): the URL built from the declared primary document
\* name when the name looks like the annual HTML, None otherwise.
DeclaredNameUrl(cik_no_zeros, accession_nodashes, primary_doc) ==
    IF primary_doc = None \/ primary_doc = "" THEN None
    ELSE LET p == Lower(primary_doc)
         IN IF EndsWithAny(p, HTML_EXTS) /\ \E k \in ANNUAL_TOKENS : Contains(p, k)
            THEN ArchiveUrl(cik_no_zeros, accession_nodashes, primary_doc)
            ELSE None

\* url and not url.endswith("/index.html")  (line 212)
ListingUrlAccepted(url) ==
    url # None /\ url # "" /\ ~EndsWith(url, "/index.html")

(***************************************************************************)
(* What the remote service may answer                                      *)
(***************************************************************************)
\* the longest directory listing served
MaxItems == 3
\* the largest number of documents in a served legacy bundle
MaxBlocks == 3

SeqsUpTo(S, n) == UNION {[1..k -> S] : k \in 0..n}

\* File names met in a filing's folder.
ListedNames ==
    { "index.html", "form10-k_2023.htm", "ex-10_1.htm", "ex20f.htm", "10K.HTM",
      "form_annual_report_fiscal_2023.htm", "data.txt" }

\* The items of a listing: a name each, null in a malformed entry.
ListedItems == {[name |-> n] : n \in ListedNames \cup {None}}

\* What get_json hands to _index_json_items for index.json.
IndexResponses == {JsonNone} \cup {IndexJson(s) : s \in SeqsUpTo(ListedItems, MaxItems)}

\* Declared primary document names of the filing-history feed (None: the
\* feed declares none).
DeclaredDocs ==
    { None, "form10-k_2023.htm", "10K.HTM", "main.htm", "doc20f.txt" }

\* The documents a legacy bundle may embed: the <TYPE> and <FILENAME> lines
\* each carries (None: the line is absent) and the case of its tags.
BundleDocs ==
    { [type |-> "EX-10.1", fname |-> "ex-10_1.htm",       upper |-> TRUE],
      [type |-> "10-K",    fname |-> "form10-k_2023.htm", upper |-> TRUE],
      [type |-> "20-F/A",  fname |-> "f20fa.HTML",        upper |-> TRUE],
      [type |-> "10-K",    fname |-> "report.pdf",        upper |-> TRUE],
      [type |-> "10-K405", fname |-> "old.htm",           upper |-> TRUE],
      [type |-> None,      fname |-> "notype.htm",        upper |-> TRUE],
      [type |-> "10-k",    fname |-> "lc10k.htm",         upper |-> FALSE] }

\* One embedded document as it stands in the bundle text.
RenderDoc(d) ==
    LET body == (IF d.type = None THEN "" ELSE "<TYPE>" \o d.type \o "\n")
                \o (IF d.fname = None THEN "" ELSE "<FILENAME>" \o d.fname \o "\n")
                \o "<TEXT>\nx\n"
        doc  == "<DOCUMENT>\n" \o body \o "</DOCUMENT>\n"
    IN IF d.upper THEN doc ELSE Lower(doc)

RECURSIVE RenderDocs(_)
RenderDocs(docs) ==
    IF Len(docs) = 0 THEN "" ELSE RenderDoc(Head(docs)) \o RenderDocs(Tail(docs))

\* The legacy bundle text: the header, then the embedded documents.
RenderBundle(docs) == "<SEC-HEADER>hdr\n</SEC-HEADER>\n" \o RenderDocs(docs)

(***************************************************************************)
(* get_annual_filings_html: the operations on the filing-history feed      *)
(***************************************************************************)
\* The characters of a filing date in the order Python compares them.
DateAlphabet == "-0123456789"

RECURSIVE StrLess(_, _)
\* a < b on two strings over DateAlphabet, as Python compares strings
StrLess(a, b) ==
    IF b = "" THEN FALSE
    ELSE IF a = "" THEN TRUE
    ELSE IF Ch(a, 1) = Ch(b, 1)
         THEN StrLess(SubSeq(a, 2, Len(a)), SubSeq(b, 2, Len(b)))
         ELSE LetterIndex(DateAlphabet, Ch(a, 1)) < LetterIndex(DateAlphabet, Ch(b, 1))

\* the insertion with an entry placed ahead of the entries of its own date
InsertDescBeforeTies(sorted, c) ==
    LET before == {j \in 1..Len(sorted) : StrLess(c.filing_date, sorted[j].filing_date)}
        k == Cardinality(before)
    IN SubSeq(sorted, 1, k) \o <<c>> \o SubSeq(sorted, k + 1, Len(sorted))

\* c put into a list already in descending date order, behind every entry
\* whose date is not less than its own
InsertDesc(sorted, c) ==
    LET before == {j \in 1..Len(sorted) : ~StrLess(sorted[j].filing_date, c.filing_date)}
        k == Cardinality(before)
    IN SubSeq(sorted, 1, k) \o <<c>> \o SubSeq(sorted, k + 1, Len(sorted))

RECURSIVE SortByDateDesc(_)
\* candidates.sort(key=lambda d: d["filing_date"], reverse=True): stable,
\* entries of equal date keep the order they had
SortByDateDesc(cands) ==
    IF cands = <<>> THEN <<>>
    ELSE InsertDesc(SortByDateDesc(SubSeq(cands, 1, Len(cands) - 1)), cands[Len(cands)])

\* candidates[:count]
Truncate(cands, n) == SubSeq(cands, 1, Min(n, Len(cands)))

\* wanted_forms with both flags taken as set
WantedFormsAll(amends, foreign) == {"10-K", "10-K/A", "20-F", "20-F/A"}

\* wanted_forms (lines 238-242)
WantedForms(amends, foreign) ==
    {"10-K"} \cup (IF amends THEN {"10-K/A"} ELSE {})
             \cup (IF foreign THEN {"20-F", "20-F/A"} ELSE {})

RECURSIVE FilterForms(_, _)
\* lines 244-252: the feed entries of a wanted form, in feed order
FilterForms(entries, wanted) ==
    IF entries = <<>> THEN <<>>
    ELSE LET rest == FilterForms(SubSeq(entries, 1, Len(entries) - 1), wanted)
             e == entries[Len(entries)]
         IN IF e.form \in wanted THEN Append(rest, e) ELSE rest

RECURSIVE StripLeadingZeros(_)
\* str(int(cik)) on a string of digits
StripLeadingZeros(s) ==
    IF Len(s) > 1 /\ Ch(s, 1) = "0" THEN StripLeadingZeros(SubSeq(s, 2, Len(s))) ELSE s

RECURSIVE RemoveDashes(_)
\* s.replace("-", "")
RemoveDashes(s) ==
    IF s = "" THEN ""
    ELSE (IF Ch(s, 1) = "-" THEN "" ELSE Ch(s, 1)) \o RemoveDashes(SubSeq(s, 2, Len(s)))

\* pick_best_annual_html (lines 200-215) on one candidate, given what the
\* service answers to the listing fetch and to the bundle fetch: a URL,
\* None, or Raise.
pick_best_annual_html(cik_no_zeros, accession_nodashes, pdoc, data, t) ==
    LET u1 == DeclaredNameUrl(cik_no_zeros, accession_nodashes, pdoc)
        u2 == pick_html_from_index_json(cik_no_zeros, accession_nodashes,
                                        _index_json_items(data))
    IN IF u1 # None THEN u1
       ELSE IF u2 = Raise THEN Raise
       ELSE IF ListingUrlAccepted(u2) THEN u2
       ELSE parse_submission_txt_for_annual_html(cik_no_zeros, accession_nodashes, t)

\* The CIK the filing history is asked for, ten digits.
FilerCik == "0000320193"

\* the longest filing-history feed served
MaxFeed == 3
\* the largest count asked for
MaxCount == 2

\* What a feed entry may carry: form, filing date, declared primary document.
FeedEntries ==
    { [form |-> "10-K",   filing_date |-> "2023-02-03", primary_doc |-> "form10-k_2023.htm"],
      [form |-> "10-K/A", filing_date |-> "2023-02-03", primary_doc |-> ""],
      [form |-> "20-F",   filing_date |-> "2022-02-04", primary_doc |-> "main.htm"],
      [form |-> "8-K",    filing_date |-> "2023-05-01", primary_doc |-> "r8k.htm"] }

\* The accession number of the i-th entry of the feed.
AccessionAt(i) == "0000320193-23-00010" \o Ch(Digits, i + 1)

\* The parallel arrays of filings.recent, read entry by entry.
FeedOf(es) ==
    [i \in 1..Len(es) |->
        [form |-> es[i].form, accession |-> AccessionAt(i),
         filing_date |-> es[i].filing_date, primary_doc |-> es[i].primary_doc]]

Feeds == {FeedOf(es) : es \in SeqsUpTo(FeedEntries, MaxFeed)}

\* What the service answers to a candidate's listing fetch ...
FilingIndexResponses ==
    { JsonNone,
      IndexJson(<<[name |-> "index.html"], [name |-> "form10-k_2023.htm"]>>),
      IndexJson(<<[name |-> None]>>) }

\* ... and to its bundle fetch.
FilingBundles ==
    { None,
      RenderBundle(<<[type |-> "10-K", fname |-> "form10-k_2023.htm", upper |-> TRUE]>>) }

(***************************************************************************)
(* State.  The program is sequential: pc is its position, and each part    *)
(* of the program keeps its own variables, at rest while another runs.     *)
(***************************************************************************)
VARIABLE pc

\* pick_best_annual_html
VARIABLES
    primary_doc,  \* the declared primary document name
    items,        \* pick_html_from_index_json: the items of the fetched listing
    url,          \* what the listing tier returned
    bundle,       \* the documents embedded in the bundle the service sent
    txt,          \* parse_submission_txt_for_annual_html: the bundle text
    ret,          \* the value returned
    calls         \* the fetches issued so far, in order

resolveVars == <<primary_doc, items, url, bundle, txt, ret, calls>>

\* one call of a fetch function
VARIABLES
    op,        \* what is being fetched in this call
    attempt,   \* get_json: the loop variable
    reqlog,    \* the requests issued in this call, each with its answer
    sleeps,    \* the waits made in this call, in units of backoff
    result     \* the value the call returned

netVars == <<op, attempt, reqlog, sleeps, result>>

\* get_annual_filings_html
VARIABLES
    feed,            \* filings.recent of the filing history the service holds
    count,           \* the parameter count
    include_amends,  \* the parameter include_amends
    include_20f,     \* the parameter include_20f
    candidates,      \* the local candidates
    cand_i,          \* the position of the loop over candidates
    out,             \* the local out
    tried,           \* what pick_best_annual_html gave for each candidate so far
    filings          \* the list returned

filingsVars ==
    <<feed, count, include_amends, include_20f, candidates, cand_i, out, tried, filings>>

\* one filing of download_annual_html
VARIABLES
    folder,         \* the names of the files in filing_dir
    html_out,       \* the text of the file at html_path, None when there is none
    text,           \* download_html: the text of the first response
    steps,          \* download_html: what its bundle recovery did so far, in order
    dl_ret,         \* what download_html returned
    retry_req,      \* download_html: its second request, with the answer
    ex_from,        \* _download_exhibits: its caller
    ex_items,       \* _download_exhibits: the local items
    ex_k,           \* _download_exhibits: the position of its loop
    downloaded,     \* _download_exhibits: the local downloaded
    ex_tried,       \* _download_exhibits: the retrievals of this call, in order
    folder0,        \* the files in filing_dir when _download_exhibits was called
    index_written,  \* this call of _download_exhibits wrote the index artifact
    ex_ret          \* what _download_exhibits returned

downloadVars ==
    <<folder, html_out, text, steps, dl_ret, retry_req, ex_from, ex_items, ex_k,
      downloaded, ex_tried, folder0, index_written, ex_ret>>

\* get_cik_from_ticker and convert_tickers_to_ciks
VARIABLES
    companies_served,  \* the identifier table the service holds
    ticker_list,       \* the tickers given
    s_i,               \* the next ticker to look up singly
    singles,           \* what get_cik_from_ticker returned for each ticker so far
    companies,         \* convert_tickers_to_ciks: the local companies
    t_i,               \* convert_tickers_to_ciks: the position of its loop
    ticker_info,       \* convert_tickers_to_ciks: the local ticker_info
    failed_tickers     \* convert_tickers_to_ciks: the local failed_tickers

tickerVars ==
    <<companies_served, ticker_list, s_i, singles, companies, t_i, ticker_info,
      failed_tickers>>

\* download_annual_html
VARIABLES
    run_input,         \* the companies of ticker_info and what the service holds for them
    c_i,               \* the position of the loop over the companies
    f_i,               \* the position of the loop over the filings of the company
    html_downloaded,   \* the local downloaded of download_annual_html
    success_count,     \* the local success_count
    error_count,       \* the local error_count
    total_files,       \* the local total_files
    stored_html,       \* <<company, filing>> of the annual documents written to disk
    processed,         \* how each company was counted, in the order of counting
    events             \* the requests and the sleeps of the run, in order

runVars ==
    <<run_input, c_i, f_i, html_downloaded, success_count, error_count, total_files,
      stored_html, processed, events>>

vars == <<pc, resolveVars, netVars, filingsVars, downloadVars, tickerVars, runVars>>

(***************************************************************************)
(* pick_best_annual_html, one candidate                                    *)
(***************************************************************************)
ResolveIdle ==
    /\ primary_doc = None
    /\ items = <<>>
    /\ url = None
    /\ bundle = <<>>
    /\ txt = None
    /\ ret = None
    /\ calls = <<>>

\* lines 206-209
DeclaredNameTier ==
    /\ pc = "pick_best"
    /\ LET u == DeclaredNameUrl(Cik, Accession, primary_doc)
       IN IF u # None
          THEN ret' = u /\ pc' = "done"
          ELSE ret' = ret /\ pc' = "tier2"
    /\ UNCHANGED <<primary_doc, items, url, bundle, txt, calls, netVars, filingsVars, downloadVars, tickerVars, runVars>>

\* line 211: the call of pick_html_from_index_json (lines 160-179), with the
\* listing fetch of _index_json_items (lines 152-158)
ListingTier ==
    /\ pc = "tier2"
    /\ \E data \in IndexResponses :
         /\ calls' = Append(calls, "index.json")
         /\ items' = _index_json_items(data)
         /\ url' = pick_html_from_index_json(Cik, Accession, items')
         /\ pc' = IF url' = Raise THEN "raised" ELSE "tier2_ret"
    /\ UNCHANGED <<primary_doc, bundle, txt, ret, netVars, filingsVars, downloadVars, tickerVars, runVars>>

\* lines 212-213; the listing is dropped with the frame that held it when
\* the tier yields nothing
ListingCheck ==
    /\ pc = "tier2_ret"
    /\ IF ListingUrlAccepted(url)
       THEN ret' = url /\ pc' = "done" /\ items' = items
       ELSE ret' = ret /\ pc' = "tier3" /\ items' = <<>>
    /\ UNCHANGED <<primary_doc, url, bundle, txt, calls, netVars, filingsVars, downloadVars, tickerVars, runVars>>

\* line 215: parse_submission_txt_for_annual_html (lines 181-198); get_text
\* returns None (404, network failure) or the text served
BundleTier ==
    /\ pc = "tier3"
    /\ \E docs \in SeqsUpTo(BundleDocs, MaxBlocks), got \in BOOLEAN :
         /\ bundle' = IF got THEN docs ELSE <<>>
         /\ txt' = IF got THEN RenderBundle(docs) ELSE None
         /\ got \/ docs = <<>>
    /\ calls' = Append(calls, "bundle.txt")
    /\ ret' = parse_submission_txt_for_annual_html(Cik, Accession, txt')
    /\ pc' = "done"
    /\ UNCHANGED <<primary_doc, items, url, netVars, filingsVars, downloadVars, tickerVars, runVars>>

ResolveNext == DeclaredNameTier \/ ListingTier \/ ListingCheck \/ BundleTier

(***************************************************************************)
(* The fetch functions: get_json, get_text, _download_binary and the       *)
(* requests of download_html, one call followed request by request         *)
(***************************************************************************)
\* get_json(url, max_retries=3, backoff=1.0)
max_retries == 3
backoff == 1

\* What the program fetches: the identifier table, a filing history, a
\* filing's index.json, its legacy bundle, a document, an exhibit file.
FetchOps ==
    {"company_tickers.json", "submissions", "index.json", "bundle.txt", "document", "exhibit"}

\* every fetch of a text or JSON resource made through get_json
FetcherOfAllJson(o) ==
    CASE o \in {"company_tickers.json", "submissions", "index.json", "bundle.txt"} -> "get_json"
      [] o = "exhibit" -> "_download_binary"
      [] o = "document" -> "download_html"

\* The function each fetch goes through: get_json at lines 94, 115, 155 and
\* 228, get_text at line 184, _download_binary at line 388, the requests of
\* download_html at lines 402 and 442.
FetcherOf(o) ==
    CASE o \in {"company_tickers.json", "submissions", "index.json"} -> "get_json"
      [] o = "bundle.txt" -> "get_text"
      [] o = "exhibit" -> "_download_binary"
      [] o = "document" -> "download_html"

\* An answer to requests.get: an exception of the transport (err), or a
\* response with its status code.
Responses ==
    {[err |-> TRUE, status |-> 0]}
        \cup {[err |-> FALSE, status |-> c] : c \in {200, 404, 429, 503}}

\* raise_for_status taken as never raising
NoStatusRaises(r) == FALSE

\* r.raise_for_status() raises
RaisesForStatus(r) == 400 <= r.status /\ r.status < 600

\* r.status_code == 429 or 500 <= r.status_code < 600
Throttled(r) == r.status = 429 \/ (500 <= r.status /\ r.status < 600)

Request(target, r) == [url |-> target, err |-> r.err, status |-> r.status]

NetIdle ==
    /\ op = "none"
    /\ attempt = 0
    /\ reqlog = <<>>
    /\ sleeps = <<>>
    /\ result = None

NetCall ==
    /\ pc = "fetch"
    /\ \E o \in FetchOps :
         /\ op' = o
         /\ pc' = FetcherOf(o)
         /\ attempt' = IF FetcherOf(o) = "get_json" THEN 1 ELSE 0
    /\ UNCHANGED <<reqlog, sleeps, result, resolveVars, filingsVars, downloadVars, tickerVars, runVars>>

\* get_json, lines 57-74: one pass of the loop
GetJsonAttempt ==
    /\ pc = "get_json"
    /\ \E r \in Responses :
         /\ reqlog' = Append(reqlog, Request(op, r))
         /\ IF ~r.err /\ Throttled(r)
            THEN \* lines 60-64: sleep, continue; line 74 after the last pass
                 /\ sleeps' = Append(sleeps, backoff * attempt)
                 /\ IF attempt < max_retries
                    THEN attempt' = attempt + 1 /\ pc' = pc /\ result' = result
                    ELSE attempt' = attempt /\ pc' = "returned" /\ result' = None
            ELSE IF r.err \/ RaisesForStatus(r)
            THEN \* lines 67-73
                 IF attempt = max_retries
                 THEN /\ result' = None
                      /\ pc' = "returned"
                      /\ UNCHANGED <<attempt, sleeps>>
                 ELSE /\ sleeps' = Append(sleeps, backoff * attempt)
                      /\ attempt' = attempt + 1
                      /\ UNCHANGED <<pc, result>>
            ELSE \* line 66
                 /\ result' = "json"
                 /\ pc' = "returned"
                 /\ UNCHANGED <<attempt, sleeps>>
    /\ UNCHANGED <<op, resolveVars, filingsVars, downloadVars, tickerVars, runVars>>

\* get_text, lines 76-85
GetText ==
    /\ pc = "get_text"
    /\ \E r \in Responses :
         /\ reqlog' = Append(reqlog, Request(op, r))
         /\ result' = IF r.err \/ r.status = 404 \/ RaisesForStatus(r) THEN None ELSE "text"
    /\ pc' = "returned"
    /\ UNCHANGED <<op, attempt, sleeps, resolveVars, filingsVars, downloadVars, tickerVars, runVars>>

\* _download_binary, lines 352-364
DownloadBinary ==
    /\ pc = "_download_binary"
    /\ \E r \in Responses :
         /\ reqlog' = Append(reqlog, Request(op, r))
         /\ result' = IF r.err \/ r.status = 404 \/ RaisesForStatus(r) THEN "False" ELSE "True"
    /\ pc' = "returned"
    /\ UNCHANGED <<op, attempt, sleeps, resolveVars, filingsVars, downloadVars, tickerVars, runVars>>

\* download_html, lines 402-452: the request of the URL given; the text is
\* HTML, or a bundle that names no annual HTML, or one that names it
DownloadHtmlGet ==
    /\ pc = "download_html"
    /\ \E r \in Responses, kind \in {"html", "sgml", "sgml_annual"} :
         /\ reqlog' = Append(reqlog, Request(op, r))
         /\ IF r.err \/ r.status = 404 \/ RaisesForStatus(r)
            THEN result' = "False" /\ pc' = "returned"
            ELSE CASE kind = "html" -> result' = "True" /\ pc' = "returned"
                   [] kind = "sgml" -> result' = "False" /\ pc' = "returned"
                   [] kind = "sgml_annual" -> result' = result /\ pc' = "download_html_retry"
    /\ UNCHANGED <<op, attempt, sleeps, resolveVars, filingsVars, downloadVars, tickerVars, runVars>>

\* download_html, lines 440-448: the request of the file the bundle names
DownloadHtmlRetry ==
    /\ pc = "download_html_retry"
    /\ \E r \in Responses :
         /\ reqlog' = Append(reqlog, Request("real_html_url", r))
         /\ result' = IF r.err \/ r.status = 404 \/ RaisesForStatus(r) THEN "False" ELSE "True"
    /\ pc' = "returned"
    /\ UNCHANGED <<op, attempt, sleeps, resolveVars, filingsVars, downloadVars, tickerVars, runVars>>

NetNext ==
    NetCall \/ GetJsonAttempt \/ GetText \/ DownloadBinary \/ DownloadHtmlGet \/ DownloadHtmlRetry

(***************************************************************************)
(* get_annual_filings_html, one company                                    *)
(***************************************************************************)
FilingsIdle ==
    /\ feed = <<>>
    /\ count = 1
    /\ include_amends = TRUE
    /\ include_20f = TRUE
    /\ candidates = <<>>
    /\ cand_i = 1
    /\ out = <<>>
    /\ tried = <<>>
    /\ filings = None

\* lines 226-261: the filing history is fetched (get_json gives None when
\* the fetch fails), filtered, sorted and truncated
FilingsSelect ==
    /\ pc = "get_annual_filings"
    /\ \E got \in BOOLEAN :
         IF ~got
         THEN /\ filings' = <<>>
              /\ pc' = "filings_ret"
              /\ UNCHANGED candidates
         ELSE LET wanted == FilterForms(feed, WantedForms(include_amends, include_20f))
              IN IF wanted = <<>>
                 THEN /\ filings' = <<>>
                      /\ pc' = "filings_ret"
                      /\ UNCHANGED candidates
                 ELSE /\ candidates' = Truncate(SortByDateDesc(wanted), count)
                      /\ pc' = "resolve_loop"
                      /\ UNCHANGED filings
    /\ UNCHANGED <<feed, count, include_amends, include_20f, cand_i, out, tried,
                   resolveVars, netVars, downloadVars, tickerVars, runVars>>

\* lines 263-273: one candidate; an exception of pick_best_annual_html
\* reaches the handler of lines 280-282, which returns []
FilingsResolve ==
    /\ pc = "resolve_loop"
    /\ cand_i <= Len(candidates)
    /\ \E data \in FilingIndexResponses, t \in FilingBundles :
         LET c == candidates[cand_i]
             accession_nodashes == RemoveDashes(c.accession)
             use_url == pick_best_annual_html(StripLeadingZeros(FilerCik),
                                              accession_nodashes, c.primary_doc, data, t)
         IN /\ tried' = Append(tried, use_url)
            /\ IF use_url = Raise
               THEN /\ filings' = <<>>
                    /\ pc' = "filings_ret"
                    /\ UNCHANGED <<out, cand_i>>
               ELSE /\ out' = IF use_url # None
                              THEN Append(out, [date |-> c.filing_date, url |-> use_url,
                                                accession |-> c.accession, form |-> c.form,
                                                is_amend |-> EndsWith(c.form, "/A")])
                              ELSE out
                    /\ cand_i' = cand_i + 1
                    /\ UNCHANGED <<filings, pc>>
    /\ UNCHANGED <<feed, count, include_amends, include_20f, candidates,
                   resolveVars, netVars, downloadVars, tickerVars, runVars>>

\* line 275
FilingsReturn ==
    /\ pc = "resolve_loop"
    /\ cand_i > Len(candidates)
    /\ filings' = out
    /\ pc' = "filings_ret"
    /\ UNCHANGED <<feed, count, include_amends, include_20f, candidates, cand_i, out,
                   tried, resolveVars, netVars, downloadVars, tickerVars, runVars>>

FilingsNext == FilingsSelect \/ FilingsResolve \/ FilingsReturn

(***************************************************************************)
(* One filing of download_annual_html: download_html with its recovery     *)
(* from a legacy bundle, and _download_exhibits                            *)
(***************************************************************************)
\* text[:2000]
PrefixLen == 2000

\* the test of the first 2000 characters made on the whole text
IsSgmlWholeText(resp_text) ==
    /\ Contains(resp_text, "<SEC-HEADER>") \/ Contains(resp_text, "<DOCUMENT>")
    /\ ~Contains(Upper(resp_text), "<HTML")

\* line 411: the response is a legacy bundle and not the HTML document
IsSgml(resp_text) ==
    /\ Contains(resp_text, "<SEC-HEADER>") \/ Contains(resp_text, "<DOCUMENT>")
    /\ ~Contains(Upper(SubSeq(resp_text, 1, Min(PrefixLen, Len(resp_text)))), "<HTML")

\* The first index >= q of s that holds no digit, Len(s) + 1 when none.
DigitsEnd(s, q) ==
    IF \E j \in q..Len(s) : ~IsDigit(Ch(s, j))
    THEN CHOOSE j \in q..Len(s) : ~IsDigit(Ch(s, j)) /\ \A k \in q..(j - 1) : IsDigit(Ch(s, k))
    ELSE Len(s) + 1

\* re.search(r"/edgar/data/(\d+)/(\d{18})/", url, flags=re.IGNORECASE) on a
\* URL that holds "/edgar/data/" at most once: <<group 1, group 2>>, None
\* when there is no match.
ParseCikAccession(u) ==
    LET at == IndexFrom(Lower(u), "/edgar/data/", 1)
        c1 == at + Len("/edgar/data/")
        c2 == DigitsEnd(u, c1)
        a1 == c2 + 1
        a2 == DigitsEnd(u, a1)
    IN IF at = 0 THEN None
       ELSE IF c2 > c1 /\ c2 <= Len(u) /\ Ch(u, c2) = "/"
               /\ a2 = a1 + 18 /\ a2 <= Len(u) /\ Ch(u, a2) = "/"
            THEN <<SubSeq(u, c1, c2 - 1), SubSeq(u, a1, a2 - 1)>>
            ELSE None

\* name.lower().endswith(include_exts)
AllowedExt(name) == EndsWithAny(Lower(name), EXHIBIT_EXTS)

\* _write_clickable_index_from_items writes its file: dest_dir / name raises
\* TypeError for a name that is None, and lines 334-336 swallow it
IndexBuilt(its) == \A i \in 1..Len(its) : its[i].name # None

\* f"{accession_nodashes}.txt" of _save_master_submission_txt
BundleFile(accession_nodashes) == accession_nodashes \o ".txt"

IndexFile == "filing_index.html"

RECURSIVE Filler(_)
\* n characters of header text
Filler(n) ==
    IF n = 0 THEN ""
    ELSE IF n % 2 = 0 THEN LET h == Filler(n \div 2) IN h \o h
    ELSE "-" \o Filler(n - 1)

\* the document the service holds for the filing, as HTML
HtmlText == "<html><body>annual report</body></html>"

\* a bundle whose annual report starts, with its <html> tag, beyond the
\* first 2000 characters
LateHtmlBundle ==
    "<SEC-HEADER>" \o Filler(PrefixLen) \o "\n</SEC-HEADER>\n"
        \o "<DOCUMENT>\n<TYPE>10-K\n<FILENAME>form10-k_2023.htm\n<TEXT>\n<html>x</html>\n</DOCUMENT>\n"

\* a bundle whose annual report starts within the first 2000 characters
EarlyHtmlBundle ==
    "<SEC-HEADER>hdr\n</SEC-HEADER>\n"
        \o "<DOCUMENT>\n<TYPE>10-K\n<FILENAME>form10-k_2023.htm\n<TEXT>\n<html>x</html>\n</DOCUMENT>\n"

\* What the service may send for the document URL.
DocumentTexts ==
    { HtmlText,
      RenderBundle(<<[type |-> "10-K", fname |-> "form10-k_2023.htm", upper |-> TRUE]>>),
      RenderBundle(<<[type |-> "EX-10.1", fname |-> "ex-10_1.htm", upper |-> TRUE]>>),
      LateHtmlBundle,
      EarlyHtmlBundle }

\* The URL get_annual_filings_html gave for the filing.
DocumentUrl == ArchiveUrl(Cik, Accession, "main.htm")

\* the longest directory listing served to _download_exhibits
MaxListed == 2

\* File names in the listing served to _download_exhibits.
ExhibitNames == {"ex-10_1.htm", "R1.PDF", "logo.jpg"}

ExhibitListings ==
    {JsonNone}
        \cup {IndexJson(s) :
                s \in SeqsUpTo({[name |-> n] : n \in ExhibitNames \cup {None}}, MaxListed)}

\* What filing_dir may hold before the filing is processed.
InitialFolders == SUBSET {"ex-10_1.htm", "R1.PDF"}

DownloadIdle ==
    /\ folder = {}
    /\ html_out = None
    /\ text = None
    /\ steps = <<>>
    /\ dl_ret = None
    /\ retry_req = None
    /\ ex_from = "none"
    /\ ex_items = <<>>
    /\ ex_k = 1
    /\ downloaded = 0
    /\ ex_tried = <<>>
    /\ folder0 = {}
    /\ index_written = FALSE
    /\ ex_ret = None

\* the request succeeded: no exception, not a 404, raise_for_status passes
Fetched(r) == ~r.err /\ r.status # 404 /\ ~RaisesForStatus(r)

\* download_html up to its first return or to its call of _download_exhibits
\* (lines 401-427 and 451-459)
DownloadHtml ==
    /\ pc = "download_html"
    /\ \E r \in Responses, t \in DocumentTexts :
         IF ~Fetched(r)
         THEN /\ dl_ret' = "False"
              /\ pc' = "after_html"
              /\ UNCHANGED <<folder, html_out, text, steps, ex_from>>
         ELSE /\ text' = t
              /\ IF IsSgml(t)
                 THEN LET m == ParseCikAccession(DocumentUrl)
                      IN IF m = None
                         THEN /\ dl_ret' = "False"
                              /\ pc' = "after_html"
                              /\ UNCHANGED <<folder, html_out, steps, ex_from>>
                         ELSE /\ folder' = folder \cup {BundleFile(m[2])}
                              /\ steps' = <<"save_bundle">>
                              /\ ex_from' = "download_html"
                              /\ pc' = IF DOWNLOAD_EXHIBITS THEN "exhibits" ELSE "index_only"
                              /\ UNCHANGED <<html_out, dl_ret>>
                 ELSE /\ html_out' = t
                      /\ dl_ret' = "True"
                      /\ pc' = "after_html"
                      /\ UNCHANGED <<folder, steps, ex_from>>
    /\ UNCHANGED <<retry_req, ex_items, ex_k, downloaded, ex_tried, folder0,
                   index_written, ex_ret, resolveVars, netVars, filingsVars, tickerVars, runVars>>

\* lines 376-377: the listing is fetched (get_json gives None when the fetch
\* fails, and the listing is then empty)
ExhibitsStart ==
    /\ pc = "exhibits"
    /\ \E data \in ExhibitListings : ex_items' = _index_json_items(data)
    /\ ex_k' = 1
    /\ downloaded' = 0
    /\ ex_tried' = <<>>
    /\ folder0' = folder
    /\ index_written' = FALSE
    /\ ex_ret' = None
    /\ steps' = IF ex_from = "download_html" THEN Append(steps, "exhibits") ELSE steps
    /\ pc' = "exhibits_loop"
    /\ UNCHANGED <<folder, html_out, text, dl_ret, retry_req, ex_from,
                   resolveVars, netVars, filingsVars, tickerVars, runVars>>

\* lines 378-390, one listed item, with _download_binary (lines 352-364)
ExhibitItem ==
    /\ pc = "exhibits_loop"
    /\ ex_k <= Len(ex_items)
    /\ LET name == ex_items[ex_k].name
       IN IF name = None \/ name = ""
          THEN UNCHANGED <<folder, downloaded, ex_tried>>
          ELSE IF ~AllowedExt(name)
          THEN UNCHANGED <<folder, downloaded, ex_tried>>
          ELSE IF name \in folder
          THEN UNCHANGED <<folder, downloaded, ex_tried>>
          ELSE \E r \in Responses :
                 /\ ex_tried' = Append(ex_tried, [name |-> name, stored |-> Fetched(r)])
                 /\ IF Fetched(r)
                    THEN folder' = folder \cup {name} /\ downloaded' = downloaded + 1
                    ELSE UNCHANGED <<folder, downloaded>>
    /\ ex_k' = ex_k + 1
    /\ UNCHANGED <<pc, html_out, text, steps, dl_ret, retry_req, ex_from, ex_items,
                   folder0, index_written, ex_ret, resolveVars, netVars, filingsVars, tickerVars, runVars>>

\* lines 391-393: _write_clickable_index_from_items (lines 301-336), then
\* return downloaded
ExhibitsFinish ==
    /\ pc = "exhibits_loop"
    /\ ex_k > Len(ex_items)
    /\ index_written' = IndexBuilt(ex_items)
    /\ folder' = IF IndexBuilt(ex_items) THEN folder \cup {IndexFile} ELSE folder
    /\ ex_ret' = downloaded
    /\ pc' = "exhibits_ret"
    /\ UNCHANGED <<html_out, text, steps, dl_ret, retry_req, ex_from, ex_items, ex_k,
                   downloaded, ex_tried, folder0, resolveVars, netVars, filingsVars, tickerVars, runVars>>

\* the caller goes on (line 428, line 534); the frame of _download_exhibits
\* is gone
ExhibitsReturn ==
    /\ pc = "exhibits_ret"
    /\ pc' = IF ex_from = "download_html" THEN "sgml_extract" ELSE "filing_done"
    /\ ex_items' = <<>>
    /\ ex_k' = 1
    /\ downloaded' = 0
    /\ ex_tried' = <<>>
    /\ folder0' = {}
    /\ index_written' = FALSE
    /\ ex_ret' = None
    /\ ex_from' = "none"
    /\ UNCHANGED <<folder, html_out, text, steps, dl_ret, retry_req,
                   resolveVars, netVars, filingsVars, tickerVars, runVars>>

\* lines 435-448: the file name is extracted from the bundle and the
\* document is requested again under it
DownloadHtmlRecover ==
    /\ pc = "sgml_extract"
    /\ LET m == ParseCikAccession(DocumentUrl)
           fname == _extract_annual_html_from_sgml(text)
       IN IF fname = None
          THEN /\ steps' = Append(steps, "extract")
               /\ dl_ret' = "False"
               /\ UNCHANGED <<html_out, retry_req>>
          ELSE \E r2 \in Responses :
                 /\ retry_req' = Request(ArchiveUrl(m[1], m[2], fname), r2)
                 /\ IF Fetched(r2)
                    THEN /\ html_out' = HtmlText
                         /\ steps' = steps \o <<"extract", "retry", "write">>
                         /\ dl_ret' = "True"
                    ELSE /\ steps' = steps \o <<"extract", "retry">>
                         /\ dl_ret' = "False"
                         /\ UNCHANGED html_out
    /\ pc' = "after_html"
    /\ UNCHANGED <<folder, text, ex_from, ex_items, ex_k, downloaded, ex_tried, folder0,
                   index_written, ex_ret, resolveVars, netVars, filingsVars, tickerVars, runVars>>

\* lines 525-533: download_html has returned, and the filing loop calls
\* _download_exhibits on the filing's folder
FilingExhibits ==
    /\ pc = "after_html"
    /\ IF DOWNLOAD_EXHIBITS
       THEN ex_from' = "filing_loop" /\ pc' = "exhibits"
       ELSE ex_from' = ex_from /\ pc' = "filing_done"
    /\ UNCHANGED <<folder, html_out, text, steps, dl_ret, retry_req, ex_items, ex_k,
                   downloaded, ex_tried, folder0, index_written, ex_ret,
                   resolveVars, netVars, filingsVars, tickerVars, runVars>>

DownloadNext ==
    \/ DownloadHtml
    \/ ExhibitsStart
    \/ ExhibitItem
    \/ ExhibitsFinish
    \/ ExhibitsReturn
    \/ DownloadHtmlRecover
    \/ FilingExhibits

(***************************************************************************)
(* Ticker -> CIK mapping: get_cik_from_ticker and convert_tickers_to_ciks  *)
(***************************************************************************)
RECURSIVE RemoveDots(_)
\* s.replace('.', '')
RemoveDots(s) ==
    IF s = "" THEN ""
    ELSE (IF Ch(s, 1) = "." THEN "" ELSE Ch(s, 1)) \o RemoveDots(SubSeq(s, 2, Len(s)))

\* ticker.upper().replace('.', '')
TickerKey(t) == RemoveDots(Upper(t))

RECURSIVE Zfill(_, _)
\* s.zfill(width) on a string of digits
Zfill(s, width) == IF Len(s) >= width THEN s ELSE Zfill("0" \o s, width)

\* company_tickers.json as get_json hands it over: the records of the
\* table, in the order data.values() yields them
TickersJson(table) == [json |-> TRUE, values |-> table]

\* for company in data.values(): ... the first record whose ticker matches,
\* 0 when none does
FirstCompany(table, key) ==
    IF \E i \in 1..Len(table) : TickerKey(table[i].ticker) = key
    THEN CHOOSE i \in 1..Len(table) :
            /\ TickerKey(table[i].ticker) = key
            /\ \A j \in 1..(i - 1) : TickerKey(table[j].ticker) # key
    ELSE 0

\* get_cik_from_ticker (lines 90-108), given what get_json returned:
\* <<cik, company_name>>, <<None, None>> when nothing is found
get_cik_from_ticker(ticker, data) ==
    IF ~data.json \/ data.values = <<>> THEN <<None, None>>
    ELSE LET i == FirstCompany(data.values, TickerKey(ticker))
         IN IF i = 0 THEN <<None, None>>
            ELSE <<Zfill(data.values[i].cik_str, 10), data.values[i].title>>

\* the longest identifier table served
MaxCompanies == 2
\* the longest ticker list converted
MaxTickers == 2

\* Records of the identifier table; cik_str is str(company["cik_str"]).
CompanyEntries ==
    { [ticker |-> "BRK-B", cik_str |-> "1067983", title |-> "BERKSHIRE HATHAWAY INC"],
      [ticker |-> "BF.B",  cik_str |-> "14693",   title |-> "BROWN FORMAN CORP"],
      [ticker |-> "AAPL",  cik_str |-> "320193",  title |-> "Apple Inc."] }

IdentifierTables == SeqsUpTo(CompanyEntries, MaxCompanies)

\* Ticker spellings given by the user.
TickerSpellings == {"BRK.B", "brkb", "BRK-B", "bf.B", "BFB", "aapl", "ZZZZ"}

TickerLists == SeqsUpTo(TickerSpellings, MaxTickers) \ {<<>>}

TickersIdle ==
    /\ companies_served = <<>>
    /\ ticker_list = <<>>
    /\ s_i = 1
    /\ singles = <<>>
    /\ companies = <<>>
    /\ t_i = 1
    /\ ticker_info = <<>>
    /\ failed_tickers = <<>>

\* get_cik_from_ticker on the next ticker of the list; get_json gives None
\* when the fetch of the table fails
GetCikFromTicker ==
    /\ pc = "single_lookups"
    /\ s_i <= Len(ticker_list)
    /\ \E got \in BOOLEAN :
         LET data == IF got THEN TickersJson(companies_served) ELSE JsonNone
             r == get_cik_from_ticker(ticker_list[s_i], data)
         IN singles' = Append(singles, [ticker |-> ticker_list[s_i], fetched |-> got,
                                        cik |-> r[1], name |-> r[2]])
    /\ s_i' = s_i + 1
    /\ UNCHANGED <<pc, companies_served, ticker_list, companies, t_i, ticker_info,
                   failed_tickers, resolveVars, netVars, filingsVars, downloadVars, runVars>>

\* lines 114-118: companies = get_json(url) or {}
ConvertStart ==
    /\ pc = "single_lookups"
    /\ s_i > Len(ticker_list)
    /\ \E got \in BOOLEAN : companies' = IF got THEN companies_served ELSE <<>>
    /\ t_i' = 1
    /\ ticker_info' = <<>>
    /\ failed_tickers' = <<>>
    /\ pc' = "convert_loop"
    /\ UNCHANGED <<companies_served, ticker_list, s_i, singles,
                   resolveVars, netVars, filingsVars, downloadVars, runVars>>

\* lines 120-136: one ticker of the list
ConvertTicker ==
    /\ pc = "convert_loop"
    /\ t_i <= Len(ticker_list)
    /\ LET ticker == ticker_list[t_i]
           i == FirstCompany(companies, TickerKey(ticker))
       IN IF i # 0
          THEN /\ ticker_info' =
                     (ticker :> [cik |-> Zfill(companies[i].cik_str, 10),
                                 name |-> companies[i].title]) @@ ticker_info
               /\ UNCHANGED failed_tickers
          ELSE /\ failed_tickers' = Append(failed_tickers, ticker)
               /\ UNCHANGED ticker_info
    /\ t_i' = t_i + 1
    /\ UNCHANGED <<pc, companies_served, ticker_list, s_i, singles, companies,
                   resolveVars, netVars, filingsVars, downloadVars, runVars>>

\* line 147
ConvertReturn ==
    /\ pc = "convert_loop"
    /\ t_i > Len(ticker_list)
    /\ pc' = "converted"
    /\ UNCHANGED <<companies_served, ticker_list, s_i, singles, companies, t_i,
                   ticker_info, failed_tickers,
                   resolveVars, netVars, filingsVars, downloadVars, runVars>>

TickersNext == GetCikFromTicker \/ ConvertStart \/ ConvertTicker \/ ConvertReturn

(***************************************************************************)
(* download_annual_html: the loop over the companies, with the requests    *)
(* and the sleeps of the run in the order they happen                      *)
(***************************************************************************)
\* the arguments of time.sleep, in tenths of a second
SLEEP_BETWEEN_CALLS == 3
SLEEP_BETWEEN_COMPANIES == 10

\* requests.get issued while company number n is processed
RequestEvent(n, what) == [kind |-> "request", what |-> what, company |-> n, tenths |-> 0]
\* time.sleep(tenths / 10) while company number n is processed
SleepEvent(n, tenths) == [kind |-> "sleep", what |-> "sleep", company |-> n, tenths |-> tenths]

RECURSIVE FailedGetJson(_, _, _)
\* get_json whose every attempt ends in a RequestException: a sleep of
\* backoff * attempt after each attempt but the last
FailedGetJson(n, what, a) ==
    IF a >= max_retries THEN <<RequestEvent(n, what)>>
    ELSE <<RequestEvent(n, what), SleepEvent(n, 10 * backoff * a)>>
             \o FailedGetJson(n, what, a + 1)

\* the requests of get_annual_filings_html: the submissions feed, then the
\* tier fetches of pick_best_annual_html for the candidates, one after the
\* other; the function calls time.sleep nowhere
GetAnnualFilingsEvents(n, company) ==
    IF company.submissions = "fails" THEN FailedGetJson(n, "submissions", 1)
    ELSE <<RequestEvent(n, "submissions")>>
             \o [j \in 1..company.tier_fetches |-> RequestEvent(n, "tier")]

RECURSIVE ExhibitEvents(_, _, _, _)
\* the loop of _download_exhibits from entry j on: an entry present in the
\* folder is skipped, a stored one is followed by a sleep, a failed one is not
ExhibitEvents(n, outcomes, j, present) ==
    IF j > Len(outcomes) THEN <<>>
    ELSE (IF j \in present THEN <<>>
          ELSE IF outcomes[j] = "stored"
               THEN <<RequestEvent(n, "exhibit"), SleepEvent(n, SLEEP_BETWEEN_CALLS)>>
               ELSE <<RequestEvent(n, "exhibit")>>)
             \o ExhibitEvents(n, outcomes, j + 1, present)

\* one call of _download_exhibits on a folder holding the entries `present`:
\* it raises when index.json has no directory object ({"directory": null}:
\* line 158 calls .get on None)
DownloadExhibitsRun(n, listing, present) ==
    IF listing.directory
    THEN [raised  |-> FALSE,
          events  |-> <<RequestEvent(n, "listing")>>
                          \o ExhibitEvents(n, listing.outcomes, 1, present),
          present |-> present \cup {j \in 1..Len(listing.outcomes) :
                                        listing.outcomes[j] = "stored"}]
    ELSE [raised  |-> TRUE,
          events  |-> <<RequestEvent(n, "listing")>>,
          present |-> present]

\* one call of download_html on a new filing folder: ok is its return value
DownloadHtmlRun(n, filing) ==
    CASE filing.doc = "404" ->
           [ok |-> FALSE, events |-> <<RequestEvent(n, "document")>>, present |-> {}]
      [] filing.doc = "html" ->
           [ok |-> TRUE, events |-> <<RequestEvent(n, "document")>>, present |-> {}]
      [] filing.doc = "bundle" ->
           LET x == DownloadExhibitsRun(n, filing.listing, {})
           IN IF x.raised
              THEN [ok |-> FALSE,
                    events |-> <<RequestEvent(n, "document")>> \o x.events,
                    present |-> {}]
              ELSE [ok |-> TRUE,
                    events |-> <<RequestEvent(n, "document")>> \o x.events
                                   \o <<RequestEvent(n, "retry")>>,
                    present |-> x.present]

\* the most filings of one company
MaxFilings == 2
\* the most companies of one run
MaxRun == 2

\* index.json of a filing folder: whether it has a directory object, and
\* what the retrieval of each listed exhibit gives
Listings ==
    { [directory |-> TRUE,  outcomes |-> <<>>],
      [directory |-> TRUE,  outcomes |-> <<"stored", "failed", "stored">>],
      [directory |-> FALSE, outcomes |-> <<>>] }

\* a filing returned by get_annual_filings_html: what its url serves
RunFilings == [doc : {"html", "404", "bundle"}, listing : Listings]

\* a company of ticker_info: how the fetch of its submissions feed ends, the
\* tier fetches made for its candidates, the filings returned
RunCompanies ==
    { [submissions |-> "fails", tier_fetches |-> 0, filings |-> <<>>] }
    \cup [submissions : {"ok"}, tier_fetches : {0, 2},
          filings : SeqsUpTo(RunFilings, MaxFilings)]

RunInputs == SeqsUpTo(RunCompanies, MaxRun) \ {<<>>}

RunIdle ==
    /\ run_input = <<>>
    /\ c_i = 1
    /\ f_i = 1
    /\ html_downloaded = 0
    /\ success_count = 0
    /\ error_count = 0
    /\ total_files = 0
    /\ stored_html = {}
    /\ processed = <<>>
    /\ events = <<>>

\* lines 483-509: the next company, up to the start of its filing loop
CompanyStart ==
    /\ pc = "company_loop"
    /\ c_i <= Len(run_input)
    /\ LET company == run_input[c_i]
           fetched == events \o GetAnnualFilingsEvents(c_i, company)
       IN IF company.filings = <<>>
          THEN /\ error_count' = error_count + 1
               /\ processed' = Append(processed, [company |-> c_i, counted |-> "error"])
               /\ events' = Append(fetched, SleepEvent(c_i, SLEEP_BETWEEN_COMPANIES))
               /\ c_i' = c_i + 1
               /\ UNCHANGED <<pc, f_i, html_downloaded>>
          ELSE /\ events' = fetched
               /\ html_downloaded' = 0
               /\ f_i' = 1
               /\ pc' = "filing_loop"
               /\ UNCHANGED <<error_count, processed, c_i>>
    /\ UNCHANGED <<run_input, success_count, total_files, stored_html,
                   resolveVars, netVars, filingsVars, downloadVars, tickerVars>>

\* lines 510-536: one filing of the company
FilingDownload ==
    /\ pc = "filing_loop"
    /\ f_i <= Len(run_input[c_i].filings)
    /\ LET filing == run_input[c_i].filings[f_i]
           h == DownloadHtmlRun(c_i, filing)
           x == DownloadExhibitsRun(c_i, filing.listing, h.present)
       IN /\ html_downloaded' = IF h.ok THEN html_downloaded + 1 ELSE html_downloaded
          /\ stored_html' = IF h.ok THEN stored_html \cup {<<c_i, f_i>>} ELSE stored_html
          /\ IF DOWNLOAD_EXHIBITS /\ x.raised
             THEN /\ events' = events \o h.events \o x.events
                  /\ pc' = "company_except"
                  /\ UNCHANGED f_i
             ELSE /\ events' = events \o h.events
                                   \o (IF DOWNLOAD_EXHIBITS THEN x.events ELSE <<>>)
                                   \o <<SleepEvent(c_i, SLEEP_BETWEEN_CALLS)>>
                  /\ f_i' = f_i + 1
                  /\ UNCHANGED pc
    /\ UNCHANGED <<run_input, c_i, success_count, error_count, total_files, processed,
                   resolveVars, netVars, filingsVars, downloadVars, tickerVars>>

\* lines 538-544 and 550: the company is counted after its last filing
CompanyCount ==
    /\ pc = "filing_loop"
    /\ f_i > Len(run_input[c_i].filings)
    /\ IF html_downloaded > 0
       THEN /\ success_count' = success_count + 1
            /\ total_files' = total_files + html_downloaded
            /\ processed' = Append(processed, [company |-> c_i, counted |-> "success"])
            /\ UNCHANGED error_count
       ELSE /\ error_count' = error_count + 1
            /\ processed' = Append(processed, [company |-> c_i, counted |-> "error"])
            /\ UNCHANGED <<success_count, total_files>>
    /\ events' = Append(events, SleepEvent(c_i, SLEEP_BETWEEN_COMPANIES))
    /\ c_i' = c_i + 1
    /\ pc' = "company_loop"
    /\ UNCHANGED <<run_input, f_i, html_downloaded, stored_html,
                   resolveVars, netVars, filingsVars, downloadVars, tickerVars>>

\* lines 546-550: an exception raised in the try block of the company
CompanyExcept ==
    /\ pc = "company_except"
    /\ error_count' = error_count + 1
    /\ processed' = Append(processed, [company |-> c_i, counted |-> "error"])
    /\ events' = Append(events, SleepEvent(c_i, SLEEP_BETWEEN_COMPANIES))
    /\ c_i' = c_i + 1
    /\ pc' = "company_loop"
    /\ UNCHANGED <<run_input, f_i, html_downloaded, success_count, total_files,
                   stored_html,
                   resolveVars, netVars, filingsVars, downloadVars, tickerVars>>

\* lines 552-558: the summary is printed
PrintSummary ==
    /\ pc = "company_loop"
    /\ c_i > Len(run_input)
    /\ pc' = "summary"
    /\ UNCHANGED <<runVars, resolveVars, netVars, filingsVars, downloadVars, tickerVars>>

RunNext == CompanyStart \/ FilingDownload \/ CompanyCount \/ CompanyExcept \/ PrintSummary

(***************************************************************************)
(* Specifications                                                          *)
(***************************************************************************)
\* pick_best_annual_html on one candidate, for every declared name
ResolveInit ==
    /\ pc = "pick_best"
    /\ primary_doc \in DeclaredDocs
    /\ items = <<>> /\ url = None /\ bundle = <<>> /\ txt = None /\ ret = None
    /\ calls = <<>>
    /\ NetIdle
    /\ FilingsIdle
    /\ DownloadIdle
    /\ TickersIdle
    /\ RunIdle

SpecResolve == ResolveInit /\ [][ResolveNext]_vars

\* one call of a fetch function
NetInit ==
    /\ pc = "fetch"
    /\ NetIdle
    /\ ResolveIdle
    /\ FilingsIdle
    /\ DownloadIdle
    /\ TickersIdle
    /\ RunIdle

SpecNet == NetInit /\ [][NetNext]_vars

\* the same call, the program running on as long as it has a step to take
SpecNetFair == NetInit /\ [][NetNext]_vars /\ WF_vars(NetNext)

\* get_annual_filings_html on one company, for every feed, count and flags
FilingsInit ==
    /\ pc = "get_annual_filings"
    /\ feed \in Feeds
    /\ count \in 1..MaxCount
    /\ include_amends \in BOOLEAN
    /\ include_20f \in BOOLEAN
    /\ candidates = <<>> /\ cand_i = 1 /\ out = <<>> /\ tried = <<>> /\ filings = None
    /\ ResolveIdle
    /\ NetIdle
    /\ DownloadIdle
    /\ TickersIdle
    /\ RunIdle

SpecFilings == FilingsInit /\ [][FilingsNext]_vars

\* one filing of download_annual_html, for every content of its folder
DownloadInit ==
    /\ pc = "download_html"
    /\ folder \in InitialFolders
    /\ html_out = None /\ text = None /\ steps = <<>> /\ dl_ret = None
    /\ retry_req = None /\ ex_from = "none"
    /\ ex_items = <<>> /\ ex_k = 1 /\ downloaded = 0 /\ ex_tried = <<>>
    /\ folder0 = {} /\ index_written = FALSE /\ ex_ret = None
    /\ ResolveIdle
    /\ NetIdle
    /\ FilingsIdle
    /\ TickersIdle
    /\ RunIdle

SpecDownload == DownloadInit /\ [][DownloadNext]_vars

\* the tickers of a list looked up one by one, then converted together
TickersInit ==
    /\ pc = "single_lookups"
    /\ companies_served \in IdentifierTables
    /\ ticker_list \in TickerLists
    /\ s_i = 1 /\ singles = <<>> /\ companies = <<>> /\ t_i = 1
    /\ ticker_info = <<>> /\ failed_tickers = <<>>
    /\ ResolveIdle
    /\ NetIdle
    /\ FilingsIdle
    /\ DownloadIdle
    /\ RunIdle

SpecTickers == TickersInit /\ [][TickersNext]_vars

\* download_annual_html on one to MaxRun companies
RunInit ==
    /\ pc = "company_loop"
    /\ run_input \in RunInputs
    /\ c_i = 1 /\ f_i = 1 /\ html_downloaded = 0
    /\ success_count = 0 /\ error_count = 0 /\ total_files = 0
    /\ stored_html = {} /\ processed = <<>> /\ events = <<>>
    /\ ResolveIdle
    /\ NetIdle
    /\ FilingsIdle
    /\ DownloadIdle
    /\ TickersIdle

SpecRun == RunInit /\ [][RunNext]_vars

(***************************************************************************)
(* Properties of the Document Resolver                                     *)
(***************************************************************************)
\* a name ending in an HTML extension, case-insensitively
IsHtmlName(n) == EndsWithAny(Lower(n), {".htm", ".html"})

\* a name carrying one of the filing-type tokens, case-insensitively
HasAnnualToken(n) == \E k \in {"10-k", "10k", "20-f", "20f"} : Contains(Lower(n), k)

ListedNow == {items[i].name : i \in DOMAIN items}

\* C1: the tiers are tried in the order declared name, directory listing,
\* legacy bundle.  A candidate whose declared name is an HTML name with a
\* filing-type token is answered with the URL of that name and no fetch is
\* issued for it; the listing is always fetched before the bundle, once each,
\* and the bundle only after the listing tier gave nothing acceptable.
C1_TierOrder ==
    /\ (primary_doc # None /\ IsHtmlName(primary_doc) /\ HasAnnualToken(primary_doc))
          => /\ calls = <<>>
             /\ pc \in {"pick_best", "done"}
             /\ pc = "done" => ret = ArchiveUrl(Cik, Accession, primary_doc)
    /\ calls \in {<<>>, <<"index.json">>, <<"index.json", "bundle.txt">>}
    /\ Len(calls) = 2 => (url = None \/ url = ArchiveUrl(Cik, Accession, "index.html"))
    /\ pc = "tier3" => Len(calls) = 1

C1_Witness ==
    /\ pc = "done"
    /\ primary_doc = "10K.HTM"
    /\ calls = <<>>
    /\ ret = ArchiveUrl(Cik, Accession, "10K.HTM")

C3_TokenBeatsIndex ==
    \A n \in ListedNow \ {None} :
        (HasAnnualToken(n) /\ n # "index.html") => score(n) > score("index.html")

C3_Witness ==
    /\ pc = "tier2_ret"
    /\ {"ex20f.htm", "index.html"} \subseteq ListedNow
    /\ ExhibitPattern("ex20f.htm")
    /\ url = ArchiveUrl(Cik, Accession, "ex20f.htm")

\* an embedded document that is an annual report in HTML: its type label is
\* one of the four accepted tags (in any letter case) and its file name ends
\* in an HTML extension
IsAnnualHtmlDoc(d) ==
    /\ d.type # None
    /\ d.fname # None
    /\ Upper(d.type) \in {"10-K", "10-K/A", "20-F", "20-F/A"}
    /\ IsHtmlName(d.fname)

\* C4: the bundle tier returns the URL of the file name of the first
\* embedded document that is an annual report in HTML, passing over every
\* earlier document, and None when the bundle embeds no such document.
C4_FirstAnnualBlock ==
    (pc = "done" /\ Len(calls) = 2 /\ txt # None) =>
        LET hits == {k \in DOMAIN bundle : IsAnnualHtmlDoc(bundle[k])}
        IN IF hits = {} THEN ret = None
           ELSE LET first == CHOOSE k \in hits : \A m \in hits : k <= m
                IN ret = ArchiveUrl(Cik, Accession, bundle[first].fname)

C4_Witness ==
    /\ pc = "done"
    /\ bundle = <<[type |-> "EX-10.1", fname |-> "ex-10_1.htm", upper |-> TRUE],
                  [type |-> "10-K", fname |-> "form10-k_2023.htm", upper |-> TRUE]>>
    /\ ret = ArchiveUrl(Cik, Accession, "form10-k_2023.htm")

(***************************************************************************)
(* Properties of the fetch functions                                       *)
(***************************************************************************)
\* a request that failed: an exception of the transport or an error status
FailedRequest(e) == e.err \/ e.status >= 400

\* no URL requested twice, and no request issued after a failed one
IssuedOnce ==
    /\ \A i, j \in DOMAIN reqlog : i < j => reqlog[i].url # reqlog[j].url
    /\ \A i \in DOMAIN reqlog : i < Len(reqlog) => ~FailedRequest(reqlog[i])

\* the same URL requested again only after a failure, max_retries times at most
Retried ==
    /\ Len(reqlog) <= 3
    /\ \A i \in DOMAIN reqlog : reqlog[i].url = op
    /\ \A i \in DOMAIN reqlog : i < Len(reqlog) => FailedRequest(reqlog[i])

\* C10 as stated: only the identifier-table fetch and the filing-history
\* fetch are retried; every other fetch (directory listing, legacy bundle,
\* document, exhibit) is issued once and never repeated after a failure.
C10_RetriesOnlyIdAndCatalog ==
    op \notin {"company_tickers.json", "submissions"} => IssuedOnce

\* C10, amended: the directory-listing fetch is retried like the
\* identifier-table and filing-history fetches (up to max_retries requests,
\* each repeat after a failure); the legacy-bundle fetch, the requests of a
\* document fetch and an exhibit fetch are issued once each and never repeated
\* after a failure.
C10_RetriesOnJsonFetches ==
    /\ op \in {"company_tickers.json", "submissions", "index.json"} => Retried
    /\ op \in {"bundle.txt", "document", "exhibit"} => IssuedOnce

C10_Witness ==
    /\ pc = "returned"
    /\ op = "index.json"
    /\ Len(reqlog) = 3
    /\ \A i \in DOMAIN reqlog : FailedRequest(reqlog[i])
    /\ result = None

(***************************************************************************)
(* Properties of the Filing Lister                                         *)
(***************************************************************************)
RECURSIVE DateNum(_)
\* a filing date "YYYY-MM-DD" as the number YYYYMMDD
DateNum(d) ==
    IF d = "" THEN 0
    ELSE LET c == Ch(d, Len(d))
             front == DateNum(SubSeq(d, 1, Len(d) - 1))
         IN IF c = "-" THEN front
            ELSE 10 * front + (CHOOSE v \in 0..9 : Ch("0123456789", v + 1) = c)

\* the positions of the feed that hold an entry of a selected form type
WantedPos ==
    {i \in 1..Len(feed) :
        \/ feed[i].form = "10-K"
        \/ include_amends /\ feed[i].form = "10-K/A"
        \/ include_20f /\ feed[i].form \in {"20-F", "20-F/A"}}

\* entry i comes ahead of entry j: filed later, or the same day and earlier
\* in the feed
Ahead(i, j) ==
    \/ DateNum(feed[i].filing_date) > DateNum(feed[j].filing_date)
    \/ DateNum(feed[i].filing_date) = DateNum(feed[j].filing_date) /\ i < j

\* the selected entries, most recent first, cut to the count asked for
MostRecent ==
    LET n == IF count < Cardinality(WantedPos) THEN count ELSE Cardinality(WantedPos)
    IN [k \in 1..n |->
          feed[CHOOSE i \in WantedPos : Cardinality({j \in WantedPos : Ahead(j, i)}) = k - 1]]

\* the entry of filings.recent a returned filing reports
EntryOf(f) == [form |-> f.form, accession |-> f.accession, filing_date |-> f.date]
Reported(e) == [form |-> e.form, accession |-> e.accession, filing_date |-> e.filing_date]

\* the filing history was obtained and holds an entry of a selected type
Selected == candidates # <<>>

\* every candidate resolved so far gave a document
AllResolved ==
    /\ Len(tried) = Len(candidates)
    /\ \A k \in 1..Len(tried) : tried[k] \notin {None, Raise}

\* no resolution of this call ended in an exception
NoneRaised == \A k \in 1..Len(tried) : tried[k] # Raise

\* C5 as stated, on the calls in which no exception occurs:
\* get_annual_filings_html returns exactly the N most recent type-filtered
\* feed entries, by filing date descending with ties in feed order.
C5_ReturnsExactlyNMostRecent ==
    pc = "filings_ret" /\ Selected /\ NoneRaised =>
        /\ Len(filings) = Len(MostRecent)
        /\ \A k \in 1..Len(filings) : EntryOf(filings[k]) = Reported(MostRecent[k])

\* C5 (amended): the candidates get_annual_filings_html selects are exactly
\* the N most recent type-filtered feed entries, by filing date descending
\* with entries of equal date in feed order; the list it returns holds
\* entries of these candidates only, in that order, and holds all N of them
\* when every candidate resolves to a document.
C5_SelectsNMostRecent ==
    /\ Selected => candidates = MostRecent
    /\ pc = "filings_ret" /\ Selected =>
        /\ \E pos \in [1..Len(filings) -> 1..Len(MostRecent)] :
              /\ \A k \in 1..Len(filings) : EntryOf(filings[k]) = Reported(MostRecent[pos[k]])
              /\ \A k, l \in 1..Len(filings) : k < l => pos[k] < pos[l]
        /\ AllResolved =>
              /\ Len(filings) = Len(MostRecent)
              /\ \A k \in 1..Len(filings) : EntryOf(filings[k]) = Reported(MostRecent[k])

\* more entries of a selected type than asked for, two of them of one date
\* and returned in feed order behind no older entry, the sort having moved
\* an older entry back
C5_Witness ==
    /\ pc = "filings_ret"
    /\ Cardinality(WantedPos) > count
    /\ AllResolved
    /\ Len(filings) = 2
    /\ filings[1].date = filings[2].date
    /\ \E i \in WantedPos :
          /\ DateNum(feed[i].filing_date) < DateNum(filings[1].date)
          /\ \E j \in WantedPos : i < j /\ feed[j].accession = filings[1].accession

\* C6 as stated: a failure confined to one candidate removes only that
\* candidate: every candidate is still resolved, and every candidate whose
\* own resolution gave a document is in the list returned.
C6_FailureRemovesOnlyThatCandidate ==
    pc = "filings_ret" /\ Selected =>
        /\ Len(tried) = Len(candidates)
        /\ \A k \in 1..Len(tried) :
              tried[k] \notin {None, Raise} =>
                  \E n \in 1..Len(filings) : filings[n].accession = candidates[k].accession

(***************************************************************************)
(* Properties of the Exhibit/Asset Fetcher                                 *)
(***************************************************************************)
\* a name with one of the allowed extensions, case-insensitively
IsAllowedName(n) ==
    /\ n \notin {None, ""}
    /\ \E e \in {".htm", ".html", ".txt", ".pdf"} :
          Len(n) >= Len(e) /\ Lower(SubSeq(n, Len(n) - Len(e) + 1, Len(n))) = e

\* the names listed in this call
ListedExhibits == {ex_items[i].name : i \in 1..Len(ex_items)}

\* the files this call stored, the index artifact apart
NewlyStored == (folder \ folder0) \ {"filing_index.html"}

\* The count returned is the number of files newly stored, a failed
\* retrieval stores and counts nothing, and every listed file with an allowed
\* extension that was absent has been attempted.
ExhibitCountAndSkips ==
    pc = "exhibits_ret" =>
        /\ ex_ret = Cardinality(NewlyStored)
        /\ ex_ret = Cardinality({k \in 1..Len(ex_tried) : ex_tried[k].stored})
        /\ NewlyStored = {ex_tried[k].name : k \in {j \in 1..Len(ex_tried) : ex_tried[j].stored}}
        /\ \A n \in ListedExhibits :
              IsAllowedName(n) /\ n \notin folder0 =>
                  \E k \in 1..Len(ex_tried) : ex_tried[k].name = n

\* C7 as stated: _download_exhibits returns exactly the number of files it
\* newly stored, a failed retrieval is skipped and not counted, every later
\* listed file is still attempted, and the index artifact is regenerated
\* before the call returns.
C7_CountSkipsAndIndex ==
    /\ ExhibitCountAndSkips
    /\ pc = "exhibits_ret" => index_written /\ "filing_index.html" \in folder

\* _download_exhibits runs again on the folder of a filing, and every listed
\* file with an allowed extension, one at least, is present
RunAgainAllPresent ==
    /\ pc = "exhibits_ret"
    /\ ex_from = "filing_loop"
    /\ \E k \in 1..Len(steps) : steps[k] = "exhibits"
    /\ \E n \in ListedExhibits : IsAllowedName(n)
    /\ \A n \in ListedExhibits : IsAllowedName(n) => n \in folder0

\* nothing is retrieved, 0 is returned and the stored files are as they were
NothingFetched ==
    /\ ex_tried = <<>>
    /\ ex_ret = 0
    /\ folder \ {"filing_index.html"} = folder0 \ {"filing_index.html"}

\* C8 as stated: run again on a folder that holds every listed file with an
\* allowed extension, _download_exhibits issues no file retrieval, returns 0,
\* leaves the stored files unchanged and still rewrites the index artifact.
C8_IdempotentWithIndex ==
    RunAgainAllPresent => NothingFetched /\ index_written

(***************************************************************************)
(* Properties of the document fetch                                        *)
(***************************************************************************)
\* the bundle markers are present and the first 2000 characters hold no
\* <HTML tag, in any letter case
LegacyBundle(t) ==
    /\ \E i \in 1..Len(t) :
          \/ i + 11 <= Len(t) /\ SubSeq(t, i, i + 11) = "<SEC-HEADER>"
          \/ i + 9 <= Len(t) /\ SubSeq(t, i, i + 9) = "<DOCUMENT>"
    /\ \A i \in 1..1996 :
          i + 4 <= Len(t) /\ SubSeq(t, i, i) = "<" => Lower(SubSeq(t, i + 1, i + 4)) # "html"

RecoveryOrder == <<"save_bundle", "exhibits", "extract", "retry", "write">>

SelectedForms ==
    {f \in {"10-K", "10-K/A", "20-F", "20-F/A"} :
        \/ f = "10-K"
        \/ f = "10-K/A" /\ include_amends
        \/ f \in {"20-F", "20-F/A"} /\ include_20f}

InGetJson ==
    op \in {"company_tickers.json", "submissions", "index.json"}
        /\ pc \in {"get_json", "returned"}

\* a response that is not a failure: no transport error, status 200
Succeeded(e) == ~e.err /\ e.status = 200

\* At most three requests, all of the URL of the call; every request before
\* the last one failed and was followed by a wait of backoff times its
\* number; the parsed JSON is returned exactly when the last request
\* succeeded, None exactly when three requests failed.
GetJsonBounded ==
    InGetJson =>
        /\ Len(reqlog) <= 3
        /\ \A i \in 1..Len(reqlog) : reqlog[i].url = op
        /\ \A i \in 1..Len(reqlog) : i < Len(reqlog) => ~Succeeded(reqlog[i])
        /\ \A i \in 1..Len(reqlog) : i < Len(reqlog) => (i <= Len(sleeps) /\ sleeps[i] = 1 * i)
        /\ Len(sleeps) <= Len(reqlog)
        /\ pc = "get_json" => Len(reqlog) < 3 /\ result = None
        /\ pc = "returned" =>
              /\ Len(reqlog) >= 1
              /\ result \in {"json", None}
              /\ result = "json" <=> Succeeded(reqlog[Len(reqlog)])
              /\ result = None <=>
                    Len(reqlog) = 3 /\ \A i \in 1..3 : ~Succeeded(reqlog[i])

\* C14: get_json always terminates, after at most max_retries requests of
\* its URL; it returns the parsed JSON of the first successful response,
\* waits backoff times the attempt number after each failed attempt that is
\* followed by another, and returns None once the attempts are exhausted,
\* after a 429/5xx status as after a network error.
C14_GetJsonTerminates ==
    /\ []GetJsonBounded
    /\ (pc = "get_json") ~> (pc = "returned")

\* three attempts failed, the first by a network error and the last by a
\* 503 status, with waits of 1 and 2 between them, and None was returned
C14_Witness ==
    /\ pc = "returned"
    /\ op = "submissions"
    /\ Len(reqlog) = 3
    /\ reqlog[1].err
    /\ reqlog[3].status = 503
    /\ SubSeq(sleeps, 1, 2) = <<1, 2>>
    /\ result = None

(***************************************************************************)
(* Properties of the Identifier Resolver                                   *)
(***************************************************************************)
RECURSIVE LettersAndDigits(_)
\* a spelling with its letters in upper case and everything that is neither
\* a letter nor a digit left out
LettersAndDigits(t) ==
    IF t = "" THEN ""
    ELSE LET c == SubSeq(t, 1, 1)
             rest == LettersAndDigits(SubSeq(t, 2, Len(t)))
         IN IF c \in {"_"} \/ ~IsWordCh(c) THEN rest ELSE Upper(c) \o rest

RECURSIVE WithoutPeriods(_)
\* a spelling with its letters in upper case and its periods left out
WithoutPeriods(t) ==
    IF t = "" THEN ""
    ELSE LET c == SubSeq(t, 1, 1)
             rest == WithoutPeriods(SubSeq(t, 2, Len(t)))
         IN IF c = "." THEN rest ELSE Upper(c) \o rest

\* what the batch conversion gave for a ticker: its record, with None for
\* both fields when the ticker is not in ticker_info
Converted(t) ==
    IF t \in DOMAIN ticker_info THEN ticker_info[t] ELSE [cik |-> None, name |-> None]

\* the two lookups agree on the tickers a and b of the list, which are at
\* positions i and j
LookupsAgree(i, j) ==
    /\ pc = "converted" =>
          /\ Converted(ticker_list[i]) = Converted(ticker_list[j])
          /\ (ticker_list[i] \in DOMAIN ticker_info)
                <=> ~\E k \in 1..Len(failed_tickers) : failed_tickers[k] = ticker_list[i]
    /\ (i <= Len(singles) /\ j <= Len(singles) /\ singles[i].fetched /\ singles[j].fetched) =>
          /\ singles[i].cik = singles[j].cik
          /\ singles[i].name = singles[j].name

\* Two spellings of the list that differ only in letter case and in periods
\* resolve alike, in get_cik_from_ticker and in convert_tickers_to_ciks.
TickerMatchIgnoresCaseAndPeriods ==
    \A i, j \in 1..Len(ticker_list) :
        WithoutPeriods(ticker_list[i]) = WithoutPeriods(ticker_list[j]) => LookupsAgree(i, j)

\* C12 as stated: two spellings that differ only in letter case and in
\* punctuation characters resolve to the same identifier and display name,
\* in get_cik_from_ticker and in convert_tickers_to_ciks, and a ticker that
\* matches nothing is reported as not found.
C12_TickerMatchIgnoresCaseAndPunctuation ==
    \A i, j \in 1..Len(ticker_list) :
        LettersAndDigits(ticker_list[i]) = LettersAndDigits(ticker_list[j]) => LookupsAgree(i, j)

(***************************************************************************)
(* Properties of the summary of download_annual_html                       *)
(***************************************************************************)
\* the annual documents of company n written to disk
DocumentsOf(n) == Cardinality({d \in stored_html : d[1] = n})

\* the companies counted successful so far
CountedSuccessful == {j \in 1..Len(processed) : processed[j].counted = "success"}

\* The companies counted are the companies fully processed, each of them once
\* and in order, and at the summary they are all the companies of the input.
CountedOnce ==
    /\ success_count + error_count = c_i - 1
    /\ Len(processed) = c_i - 1
    /\ \A j \in 1..Len(processed) : processed[j].company = j
    /\ success_count = Cardinality(CountedSuccessful)
    /\ pc = "summary" => success_count + error_count = Len(run_input)

\* total_files is the number of documents written for the companies counted
\* successful.
TotalOverSuccessful ==
    total_files = Cardinality({d \in stored_html : d[1] \in CountedSuccessful})

\* A company counted successful has at least one document on disk.
SuccessOnlyWithDocument ==
    \A j \in CountedSuccessful : DocumentsOf(j) > 0

\* The part of the summary that holds on every run.
SummaryCountsAddUp == CountedOnce /\ TotalOverSuccessful /\ SuccessOnlyWithDocument

\* C15: in download_annual_html every company of the input is counted exactly
\* once: success_count + error_count is the number of companies fully
\* processed so far and, at the end, the number of input companies; a company
\* is counted successful if and only if at least one of its annual HTML
\* documents was downloaded; total_files is the sum of the downloaded
\* documents over the successful companies.
C15_EveryCompanyCountedOnce ==
    /\ CountedOnce
    /\ TotalOverSuccessful
    /\ \A j \in 1..Len(processed) :
           processed[j].counted = "success" <=> DocumentsOf(j) > 0

(***************************************************************************)
(* Properties of the pacing of a run                                       *)
(***************************************************************************)
\* the positions of the requests among the events of the run
RequestsAt == {i \in 1..Len(events) : events[i].kind = "request"}

RECURSIVE RequestFrom(_)
\* the position of the first request at or after position i, 0 when none
RequestFrom(i) ==
    IF i > Len(events) THEN 0
    ELSE IF events[i].kind = "request" THEN i ELSE RequestFrom(i + 1)

\* a sleep of at least the given length lies between events i and j
SleepBetween(i, j, least) ==
    \E m \in (i + 1)..(j - 1) : events[m].kind = "sleep" /\ events[m].tenths >= least

\* Between the last request of one company and the first request of the next
\* the program sleeps SLEEP_BETWEEN_COMPANIES.
LongSleepBetweenCompanies ==
    \A i \in RequestsAt :
        LET j == RequestFrom(i + 1)
        IN (j # 0 /\ events[i].company # events[j].company)
               => SleepBetween(i, j, SLEEP_BETWEEN_COMPANIES)

\* C11: a pacing delay separates every two successive requests of a run:
\* between two consecutive requests of one company (successful or failed, tier
\* fetches, candidates, exhibit retrievals) the program sleeps the short
\* interval, and between the last request of one company and the first of the
\* next it sleeps the longer interval.
C11_SleepBetweenSuccessiveRequests ==
    \A i \in RequestsAt :
        LET j == RequestFrom(i + 1)
        IN j # 0
               => IF events[i].company = events[j].company
                  THEN SleepBetween(i, j, SLEEP_BETWEEN_CALLS)
                  ELSE SleepBetween(i, j, SLEEP_BETWEEN_COMPANIES)

=============================================================================
